---- MODULE Spec2Model ----
(***************************************************************************)
(* TRedisDriver (src/src/tredisdriver.cpp): a synchronous RESP client.     *)
(* The receive buffer is a sequence of bytes, a byte is a one-character    *)
(* string, and every index is 0-based as in the C++ code.                  *)
(***************************************************************************)
EXTENDS Integers, Sequences, FiniteSets, TLC

VARIABLES
    Q_OS_WIN,   \* build target: TRUE when the preprocessor symbol is defined
    isOpen,     \* redis->isOpen()
    wire,       \* bytes the server has sent that readAll() has not returned yet
    sent,       \* the frame handed to redis->write() by the current request
    buffer,     \* TRedisDriver::buffer
    pos,        \* TRedisDriver::pos
    pc,         \* where the caller is: "idle", "reading", "parse", "parsed", "encode", "encoded"
    startpos,   \* the local startpos of the running request / parse function
    ret,        \* the local ret of request
    ok,         \* the local ok of request / the *ok out-parameter
    str,        \* the local str of request (the line or bulk string last parsed)
    reply,      \* the reply list of request (in/out parameter)
    command,    \* the argument list of the current request
    cur,        \* the bytes the server sends in answer to the current command
    got,        \* the bytes readAll() has returned to the current request
    nreq,       \* number of requests started on this driver
    last,       \* how the latest finished request ended, and what it returned
    prev,       \* the same for the request before it
    timer,      \* QElapsedTimer timer of the running readReply, in seconds
    elapsed     \* seconds since the running (or latest) request began

vars == <<Q_OS_WIN, isOpen, wire, sent, buffer, pos, pc, startpos, ret, ok, str,
          reply, command, cur, got, nreq, last, prev, timer, elapsed>>

clock == <<timer, elapsed>>

(***************************************************************************)
(* Bounds of the model.                                                    *)
(***************************************************************************)
MaxRequests == 2
MaxArgs == 3

\* the read timeout of readReply, 2000 ms (line 92), in seconds
ReadTimeout == 2

\* the longest time a request is followed for, in seconds
MaxElapsed == 4

(***************************************************************************)
(* Bytes.                                                                  *)
(***************************************************************************)
CR == "\r"
LF == "\n"
NUL == "NUL"

\* tredisdriver.cpp:14-18
CRLF(win) == IF win THEN <<LF>> ELSE <<CR, LF>>

Digits == <<"0", "1", "2", "3", "4", "5", "6", "7", "8", "9">>

IsDigit(d) == \E i \in 1..10 : Digits[i] = d

DigitVal(d) == (CHOOSE i \in 1..10 : Digits[i] = d) - 1

(***************************************************************************)
(* QByteArray: a byte sequence and the null flag (QByteArray() is null,    *)
(* QByteArray("") is empty and not null).                                  *)
(***************************************************************************)
NullBA == [null |-> TRUE, b |-> <<>>]

BA(s) == [null |-> FALSE, b |-> s]

\* QByteArray::operator[] on a non-const array read through QByteRef:
\* a byte past the end reads as 0.
At(buf, i) == IF i >= 0 /\ i < Len(buf) THEN buf[i + 1] ELSE NUL

\* QByteArray::indexOf(pat, from): the first index >= from where pat occurs, or -1.
indexOf(buf, pat, from) ==
    LET hits == {i \in from..(Len(buf) - Len(pat)) :
                    \A j \in 1..Len(pat) : buf[i + j] = pat[j]}
    IN IF hits = {} THEN -1 ELSE CHOOSE i \in hits : \A k \in hits : i <= k

\* QByteArray::mid(p, len): at most len bytes from index p.
mid(buf, p, len) ==
    IF p > Len(buf) THEN NullBA
    ELSE LET n == IF len < 0 \/ len > Len(buf) - p THEN Len(buf) - p ELSE len
         IN BA(SubSeq(buf, p + 1, p + n))

\* QByteArray::remove(0, n): drops the first n bytes (all of them when n >= size).
remove0(buf, n) ==
    IF n <= 0 \/ Len(buf) = 0 THEN buf
    ELSE IF n >= Len(buf) THEN <<>>
    ELSE SubSeq(buf, n + 1, Len(buf))

\* QByteArray::number(n) for n >= 0: the decimal digits of n.
RECURSIVE number(_)
number(n) == IF n < 10 THEN <<Digits[n + 1]>>
             ELSE number(n \div 10) \o <<Digits[(n % 10) + 1]>>

(***************************************************************************)
(* QVariant values of the reply list.                                      *)
(***************************************************************************)
VInt(n) == [t |-> "Integer", n |-> n, null |-> FALSE, b |-> <<>>, l |-> <<>>]

VBytes(ba) == [t |-> "BulkString", n |-> 0, null |-> ba.null, b |-> ba.b, l |-> <<>>]

VList(lst) == [t |-> "Array", n |-> 0, null |-> FALSE, b |-> <<>>, l |-> lst]

(***************************************************************************)
(* The reply parser.  Each function takes the buffer and the cursor and    *)
(* returns its value with the new cursor and *ok.                          *)
(***************************************************************************)
\* getNumber, lines 298-302: the digit run starting at p.
RECURSIVE scanDigits(_, _, _)
scanDigits(buf, p, num) ==
    IF IsDigit(At(buf, p)) THEN scanDigits(buf, p + 1, num * 10 + DigitVal(At(buf, p)))
    ELSE num

getNumber(buf, p, win) ==
    LET idx == indexOf(buf, CRLF(win), p)
        neg == At(buf, p) = "-"
        c == IF neg THEN -1 ELSE 1
        num == scanDigits(buf, IF neg THEN p + 1 ELSE p, 0)
    IN IF idx < 0 THEN [num |-> 0, pos |-> p, ok |-> FALSE]
       ELSE [num |-> num * c, pos |-> idx + 2, ok |-> TRUE]

getLine(buf, p, win) ==
    LET idx == indexOf(buf, CRLF(win), p)
    IN IF idx < 0 THEN [str |-> NullBA, pos |-> p, ok |-> FALSE]
       ELSE [str |-> mid(buf, p, idx), pos |-> idx + 2, ok |-> TRUE]

parseBulkString(buf, p, win) ==
    LET n == getNumber(buf, p + 1, win)
        len == n.num
        r == IF ~n.ok THEN [str |-> NullBA, pos |-> n.pos, ok |-> FALSE]
             ELSE IF len < -1 THEN [str |-> NullBA, pos |-> n.pos, ok |-> FALSE]
             ELSE IF len = -1 THEN [str |-> NullBA, pos |-> n.pos, ok |-> TRUE]
             ELSE IF n.pos + 2 <= Len(buf)
                  THEN [str |-> IF len > 0 THEN mid(buf, n.pos, len) ELSE BA(<<>>),
                        pos |-> n.pos + len + 2, ok |-> TRUE]
                  ELSE [str |-> NullBA, pos |-> n.pos, ok |-> FALSE]
    IN IF ~r.ok THEN [r EXCEPT !.pos = p] ELSE r

\* parseArray, lines 239-266: the switch on the tag of one element, given the
\* results of the three calls it may make.
element(tag, lst, p, s, n, a) ==
    IF tag = "$"
    THEN [lst |-> IF s.ok THEN Append(lst, VBytes(s.str)) ELSE lst,
          pos |-> s.pos, ok |-> s.ok]
    ELSE IF tag = ":"
    THEN [lst |-> IF n.ok THEN Append(lst, VInt(n.num)) ELSE lst,
          pos |-> n.pos, ok |-> n.ok]
    ELSE IF tag = "*"
    THEN [lst |-> IF a.ok THEN Append(lst, VList(a.lst)) ELSE lst,
          pos |-> a.pos, ok |-> a.ok]
    ELSE [lst |-> lst, pos |-> p, ok |-> FALSE]

RECURSIVE parseArray(_, _, _)
RECURSIVE arrayLoop(_, _, _, _, _)

\* parseArray, lines 238-271: the loop over the elements, entered with *ok set
\* by getNumber.
arrayLoop(buf, p, count, lst, win) ==
    LET r == element(At(buf, p), lst, p, parseBulkString(buf, p, win),
                     getNumber(buf, p + 1, win), parseArray(buf, p, win))
    IN IF Len(r.lst) >= count \/ ~r.ok THEN r
       ELSE arrayLoop(buf, r.pos, count, r.lst, win)

parseArray(buf, p, win) ==
    LET n == getNumber(buf, p + 1, win)
        r == IF n.ok THEN arrayLoop(buf, n.pos, n.num, <<>>, win)
             ELSE [lst |-> <<>>, pos |-> n.pos, ok |-> FALSE]
    IN IF ~r.ok THEN [r EXCEPT !.pos = p] ELSE r

(***************************************************************************)
(* The command encoder.                                                    *)
(***************************************************************************)
toBulk(data, win) ==
    <<"$">> \o number(Len(data)) \o CRLF(win) \o data \o CRLF(win)

RECURSIVE toBulks(_, _)
toBulks(data, win) ==
    IF data = <<>> THEN <<>>
    ELSE toBulk(Head(data), win) \o toBulks(Tail(data), win)

toMultiBulk(data, win) ==
    <<"*">> \o number(Len(data)) \o CRLF(win) \o toBulks(data, win)

(***************************************************************************)
(* What the server may answer: well-formed RESP2 replies and malformed     *)
(* ones.                                                                   *)
(***************************************************************************)
SimpleOK == <<"+", "O", "K", CR, LF>>
ErrorE == <<"-", "E", CR, LF>>
Integer7 == <<":", "7", CR, LF>>
BulkNull == <<"$", "-", "1", CR, LF>>
BulkEmpty == <<"$", "0", CR, LF, CR, LF>>
Bulk3 == <<"$", "3", CR, LF, "a", "b", "c", CR, LF>>
ArrayNull == <<"*", "-", "1", CR, LF>>
ArrayEmpty == <<"*", "0", CR, LF>>
ArrayNested == <<"*", "2", CR, LF, "$", "1", CR, LF, "a", CR, LF,
                 "*", "1", CR, LF, ":", "7", CR, LF>>
ArrayOfEmpty == <<"*", "1", CR, LF, "*", "0", CR, LF>>
ArrayOfArray == <<"*", "1", CR, LF, "*", "1", CR, LF, ":", "7", CR, LF>>

BadTag == <<"!", CR, LF>>
BadLength == <<"$", "-", "2", CR, LF>>
BadElement == <<"*", "1", CR, LF, "+", CR, LF>>
BadInteger == <<":", "1", "x", CR, LF>>

\* the answers of the server in the request cycle
WellFormed == {SimpleOK, ErrorE, Integer7, BulkNull, BulkEmpty, Bulk3,
               ArrayNull, ArrayEmpty, ArrayOfArray}

Malformed == {BadTag, BadLength, BadElement}

\* an Integer line whose terminator the server never sends
IntegerCut == <<":", "7">>

Unfinished == {IntegerCut}

Replies == WellFormed \cup Malformed \cup Unfinished

\* the buffers the parse functions are tried on
ParseReplies == Replies \cup {ArrayNested, ArrayOfEmpty, BadInteger}

(***************************************************************************)
(* Argument lists of commands.                                             *)
(***************************************************************************)
Args == {<<>>, <<"k">>, <<CR, LF>>,
         <<"0", "1", "2", "3", "4", "5", "6", "7", "8", "9">>}

RECURSIVE ArgLists(_)
ArgLists(n) ==
    IF n = 0 THEN {<<>>}
    ELSE ArgLists(n - 1) \cup
         {Append(l, a) : l \in {x \in ArgLists(n - 1) : Len(x) = n - 1}, a \in Args}

Commands == {<<<<"G", "E", "T">>, <<"k">>>>}

(***************************************************************************)
(* The driver: one connection, one request at a time.                      *)
(***************************************************************************)
IsPrefix(a, b) == Len(a) <= Len(b) /\ a = SubSeq(b, 1, Len(a))

\* what a request has read, against the answer to its command: all of it, the
\* first part of it, or other bytes
Heard(g, answer) ==
    IF g = answer THEN "all" ELSE IF IsPrefix(g, answer) THEN "part" ELSE "other"

NoResult == [kind |-> "None", ret |-> TRUE, reply |-> <<>>, heard |-> "all"]

\* TRedisDriver::TRedisDriver, lines 23-27
Init ==
    /\ Q_OS_WIN \in BOOLEAN
    /\ isOpen = FALSE
    /\ wire = <<>>
    /\ sent = <<>>
    /\ buffer = <<>>
    /\ pos = 0
    /\ pc = "idle"
    /\ startpos = 0
    /\ ret = TRUE
    /\ ok = FALSE
    /\ str = NullBA
    /\ reply = <<>>
    /\ command = <<>>
    /\ cur = <<>>
    /\ got = <<>>
    /\ nreq = 0
    /\ last = NoResult
    /\ prev = NoResult
    /\ timer = 0
    /\ elapsed = 0

\* TRedisDriver::open, lines 37-58, on a driver that is not open (it returns at
\* once on an open one): connected is the outcome of waitForState, and a new
\* connection has nothing to read yet.
Open(connected) ==
    /\ pc = "idle"
    /\ ~isOpen
    /\ isOpen' = connected
    /\ wire' = <<>>
    /\ UNCHANGED <<Q_OS_WIN, sent, buffer, pos, pc, startpos, ret, ok, str, reply,
                   command, cur, got, nreq, last, prev>>

\* TRedisDriver::close, lines 61-64
Close ==
    /\ pc = "idle"
    /\ isOpen
    /\ isOpen' = FALSE
    /\ wire' = <<>>
    /\ UNCHANGED <<Q_OS_WIN, sent, buffer, pos, pc, startpos, ret, ok, str, reply,
                   command, cur, got, nreq, last, prev>>

\* request without the clearBuffer of line 118
RequestKeepsBuffer(cmd, answer) ==
    /\ pc = "idle"
    /\ nreq < MaxRequests
    /\ nreq' = nreq + 1
    /\ command' = cmd
    /\ cur' = answer
    /\ got' = <<>>
    /\ ret' = TRUE
    /\ str' = NullBA
    /\ ok' = FALSE
    /\ reply' = <<>>
    /\ startpos' = pos
    /\ sent' = IF isOpen THEN toMultiBulk(cmd, Q_OS_WIN) ELSE <<>>
    /\ wire' = IF isOpen THEN wire \o answer ELSE wire
    /\ pc' = "reading"
    /\ UNCHANGED <<Q_OS_WIN, isOpen, buffer, pos, last, prev>>

\* request, lines 109-118: the locals, the write and clearBuffer.  The caller
\* passes an empty reply list; a write on a device that is not open fails and
\* sends nothing; the server answers a command that reached it with the bytes
\* of answer.
Request(cmd, answer) ==
    /\ pc = "idle"
    /\ nreq < MaxRequests
    /\ nreq' = nreq + 1
    /\ command' = cmd
    /\ cur' = answer
    /\ got' = <<>>
    /\ ret' = TRUE
    /\ str' = NullBA
    /\ ok' = FALSE
    /\ reply' = <<>>
    /\ startpos' = pos
    /\ sent' = IF isOpen THEN toMultiBulk(cmd, Q_OS_WIN) ELSE <<>>
    /\ wire' = IF isOpen THEN wire \o answer ELSE wire
    /\ buffer' = <<>>
    /\ pos' = 0
    /\ pc' = "reading"
    /\ UNCHANGED <<Q_OS_WIN, isOpen, last, prev>>

\* request, lines 175-176: the caller gets ret and reply, and the locals of
\* request end with the call.
Return(kind, r, rep, g) ==
    /\ pc' = "idle"
    /\ prev' = last
    /\ last' = [kind |-> kind, ret |-> r, reply |-> rep, heard |-> Heard(g, cur)]
    /\ got' = <<>>
    /\ startpos' = 0
    /\ ret' = TRUE
    /\ ok' = FALSE
    /\ str' = NullBA
    /\ reply' = <<>>

\* readReply, lines 75-78, then request, lines 121-124 and 175-176
ReadReplyNotOpen ==
    /\ pc = "reading"
    /\ ~isOpen
    /\ buffer' = <<>>
    /\ pos' = 0
    /\ Return("NotOpen", ret, reply, got)
    /\ UNCHANGED <<Q_OS_WIN, isOpen, wire, sent, command, cur, nreq>>

\* readReply, lines 80-103 with no byte arriving for 2000 ms, then request,
\* lines 121-124 and 175-176
ReadReplyTimeout ==
    /\ pc = "reading"
    /\ isOpen
    /\ buffer' = <<>>
    /\ pos' = 0
    /\ Return("TimedOut", ret, reply, got)
    /\ UNCHANGED <<Q_OS_WIN, isOpen, wire, sent, command, cur, nreq>>

\* request, lines 126-172: the switch on the tag and the rollback, given the
\* results of the calls the switch may make.
switch(tag, sp, rt, st, rep, line, num, bulk, arr) ==
    IF tag = "-"
    THEN [ret |-> FALSE, str |-> line.str, reply |-> rep,
          pos |-> IF line.ok THEN line.pos ELSE sp, ok |-> line.ok, kind |-> "Error"]
    ELSE IF tag = "+"
    THEN [ret |-> rt, str |-> line.str, reply |-> rep,
          pos |-> IF line.ok THEN line.pos ELSE sp, ok |-> line.ok,
          kind |-> "SimpleString"]
    ELSE IF tag = ":"
    THEN [ret |-> rt, str |-> st,
          reply |-> IF num.ok THEN Append(rep, VInt(num.num)) ELSE rep,
          pos |-> IF num.ok THEN num.pos ELSE sp, ok |-> num.ok, kind |-> "Integer"]
    ELSE IF tag = "$"
    THEN [ret |-> rt, str |-> bulk.str,
          reply |-> IF bulk.ok THEN Append(rep, VBytes(bulk.str)) ELSE rep,
          pos |-> IF bulk.ok THEN bulk.pos ELSE sp, ok |-> bulk.ok,
          kind |-> "BulkString"]
    ELSE IF tag = "*"
    THEN [ret |-> rt, str |-> st,
          reply |-> IF arr.ok THEN arr.lst ELSE <<>>,
          pos |-> IF arr.ok THEN arr.pos ELSE sp, ok |-> arr.ok, kind |-> "Array"]
    ELSE [ret |-> FALSE, str |-> st, reply |-> rep,
          pos |-> 0, ok |-> FALSE, kind |-> "ProtocolError"]

\* request, lines 126-172: one parse attempt on buf at cursor p, with startpos
\* sp and the locals ret, str and reply as they stand.
dispatch(buf, p, sp, rt, st, rep, win) ==
    switch(At(buf, p), sp, rt, st, rep, getLine(buf, p, win),
           getNumber(buf, p + 1, win), parseBulkString(buf, p, win),
           parseArray(buf, p, win))

\* the default branch of request without the clearBuffer of line 163
AttemptedKeepsBuffer(buf, r, g) ==
    /\ pos' = r.pos
    /\ buffer' = buf
    /\ IF r.kind = "ProtocolError" \/ r.ok
       THEN Return(r.kind, r.ret, r.reply, g)
       ELSE /\ got' = g
            /\ ret' = r.ret
            /\ ok' = r.ok
            /\ str' = r.str
            /\ reply' = r.reply
            /\ UNCHANGED <<pc, last, prev, startpos>>

\* request, lines 160-176, after the parse attempt r on the buffer buf: return
\* on a protocol error or a complete reply, roll back and loop otherwise.
Attempted(buf, r, g) ==
    /\ pos' = r.pos
    /\ buffer' = IF r.kind = "ProtocolError" THEN <<>> ELSE buf
    /\ IF r.kind = "ProtocolError" \/ r.ok
       THEN Return(r.kind, r.ret, r.reply, g)
       ELSE /\ got' = g
            /\ ret' = r.ret
            /\ ok' = r.ok
            /\ str' = r.str
            /\ reply' = r.reply
            /\ UNCHANGED <<pc, last, prev, startpos>>

\* request, lines 126-176, with buf in the buffer and the cursor at 0
Received(buf, g) ==
    Attempted(buf, dispatch(buf, 0, startpos, ret, str, reply, Q_OS_WIN), g)

\* readReply, lines 80-103 with n bytes arriving, then one turn of the loop of
\* request, lines 126-172.
ReadReplyData(n) ==
    /\ pc = "reading"
    /\ isOpen
    /\ n \in 1..Len(wire)
    /\ wire' = SubSeq(wire, n + 1, Len(wire))
    /\ Received(remove0(buffer, pos) \o SubSeq(wire, 1, n), got \o SubSeq(wire, 1, n))
    /\ UNCHANGED <<Q_OS_WIN, isOpen, sent, command, cur, nreq>>

\* Any operation at any moment: when a read times out is left open, and the
\* clocks are not run.
Next ==
    \/ (\E connected \in BOOLEAN : Open(connected)) /\ UNCHANGED clock
    \/ Close /\ UNCHANGED clock
    \/ (\E cmd \in Commands, answer \in Replies : Request(cmd, answer))
          /\ UNCHANGED clock
    \/ ReadReplyNotOpen /\ UNCHANGED clock
    \/ ReadReplyTimeout /\ UNCHANGED clock
    \/ (\E n \in 1..Len(wire) : ReadReplyData(n)) /\ UNCHANGED clock

Spec == Init /\ [][Next]_vars

(***************************************************************************)
(* The driver with the clocks running.  Time passes only while readReply   *)
(* polls for bytes; a read gives up when its own timer has reached          *)
(* ReadTimeout.                                                            *)
(***************************************************************************)
\* readReply, lines 89-101: one second passes in the polling loop without a
\* byte arriving, the timer being short of the timeout
Tick ==
    /\ pc = "reading"
    /\ isOpen
    /\ timer < ReadTimeout
    /\ timer' = timer + 1
    /\ elapsed' = IF elapsed < MaxElapsed THEN elapsed + 1 ELSE elapsed
    /\ UNCHANGED <<Q_OS_WIN, isOpen, wire, sent, buffer, pos, pc, startpos, ret, ok,
                   str, reply, command, cur, got, nreq, last, prev>>

\* request, lines 109-118, entering its first readReply, whose timer starts at
\* line 87
RequestAt(cmd, answer) ==
    /\ Request(cmd, answer)
    /\ timer' = 0
    /\ elapsed' = 0

\* readReply, line 92: the read gives up once timer.elapsed() >= 2000
ReadReplyExpires ==
    /\ timer >= ReadTimeout
    /\ ReadReplyTimeout
    /\ timer' = 0
    /\ UNCHANGED elapsed

\* readReply, lines 91-100: bytes arrive before the timer has run out; the
\* readReply that follows an incomplete attempt starts a new timer (lines 86-87)
ReadReplyInTime(n) ==
    /\ timer < ReadTimeout
    /\ ReadReplyData(n)
    /\ timer' = 0
    /\ UNCHANGED elapsed

NextTime ==
    \/ (\E connected \in BOOLEAN : Open(connected)) /\ UNCHANGED clock
    \/ Close /\ UNCHANGED clock
    \/ \E cmd \in Commands, answer \in Replies : RequestAt(cmd, answer)
    \/ ReadReplyNotOpen /\ UNCHANGED clock
    \/ ReadReplyExpires
    \/ \E n \in 1..Len(wire) : ReadReplyInTime(n)
    \/ Tick

SpecTime == Init /\ [][NextTime]_vars

(***************************************************************************)
(* The parse functions on their own: the buffer holds the bytes before the *)
(* cursor, then the first k bytes of a reply, then (after a whole reply)   *)
(* the bytes that follow it.                                               *)
(***************************************************************************)
Consumed == {<<>>, SimpleOK}

Following == {<<>>, <<":", "7">>}

InitParse ==
    /\ Q_OS_WIN \in BOOLEAN
    /\ \E full \in ParseReplies, before \in Consumed, after \in Following :
         \E k \in 1..Len(full) :
            /\ k < Len(full) => after = <<>>
            /\ buffer = before \o SubSeq(full, 1, k) \o after
            /\ pos = Len(before)
            /\ cur = full
    /\ pc = "parse"
    /\ isOpen = FALSE
    /\ wire = <<>>
    /\ sent = <<>>
    /\ startpos = 0
    /\ ret = TRUE
    /\ ok = FALSE
    /\ str = NullBA
    /\ reply = <<>>
    /\ command = <<>>
    /\ got = <<>>
    /\ nreq = 0
    /\ last = NoResult
    /\ prev = NoResult
    /\ timer = 0
    /\ elapsed = 0

\* a call of getLine, lines 180-192, as request makes it at lines 129 and 134
CallGetLine ==
    /\ pc = "parse"
    /\ At(buffer, pos) \in {"+", "-"}
    /\ LET r == getLine(buffer, pos, Q_OS_WIN)
       IN /\ str' = r.str
          /\ pos' = r.pos
          /\ ok' = r.ok
    /\ startpos' = pos
    /\ pc' = "parsed"
    /\ UNCHANGED <<Q_OS_WIN, isOpen, wire, sent, buffer, ret, reply, command, cur,
                   got, nreq, last, prev>>

\* a call of getNumber, lines 280-307, as request makes it at lines 139-143
CallGetNumber ==
    /\ pc = "parse"
    /\ At(buffer, pos) = ":"
    /\ LET r == getNumber(buffer, pos + 1, Q_OS_WIN)
       IN /\ reply' = IF r.ok THEN <<VInt(r.num)>> ELSE <<>>
          /\ pos' = r.pos
          /\ ok' = r.ok
    /\ startpos' = pos
    /\ pc' = "parsed"
    /\ UNCHANGED <<Q_OS_WIN, isOpen, wire, sent, buffer, ret, str, command, cur,
                   got, nreq, last, prev>>

\* a call of parseBulkString, lines 195-225
CallParseBulkString ==
    /\ pc = "parse"
    /\ At(buffer, pos) = "$"
    /\ LET r == parseBulkString(buffer, pos, Q_OS_WIN)
       IN /\ str' = r.str
          /\ reply' = IF r.ok THEN <<VBytes(r.str)>> ELSE <<>>
          /\ pos' = r.pos
          /\ ok' = r.ok
    /\ startpos' = pos
    /\ pc' = "parsed"
    /\ UNCHANGED <<Q_OS_WIN, isOpen, wire, sent, buffer, ret, command, cur,
                   got, nreq, last, prev>>

\* a call of parseArray, lines 228-277
CallParseArray ==
    /\ pc = "parse"
    /\ At(buffer, pos) = "*"
    /\ LET r == parseArray(buffer, pos, Q_OS_WIN)
       IN /\ reply' = r.lst
          /\ pos' = r.pos
          /\ ok' = r.ok
    /\ startpos' = pos
    /\ pc' = "parsed"
    /\ UNCHANGED <<Q_OS_WIN, isOpen, wire, sent, buffer, ret, str, command, cur,
                   got, nreq, last, prev>>

NextParse ==
    \/ CallGetLine /\ UNCHANGED clock
    \/ CallGetNumber /\ UNCHANGED clock
    \/ CallParseBulkString /\ UNCHANGED clock
    \/ CallParseArray /\ UNCHANGED clock

SpecParse == InitParse /\ [][NextParse]_vars

(***************************************************************************)
(* The encoder on its own.                                                 *)
(***************************************************************************)
InitEnc ==
    /\ Q_OS_WIN \in BOOLEAN
    /\ command \in ArgLists(MaxArgs)
    /\ pc = "encode"
    /\ isOpen = FALSE
    /\ wire = <<>>
    /\ sent = <<>>
    /\ buffer = <<>>
    /\ pos = 0
    /\ startpos = 0
    /\ ret = TRUE
    /\ ok = FALSE
    /\ str = NullBA
    /\ reply = <<>>
    /\ cur = <<>>
    /\ got = <<>>
    /\ nreq = 0
    /\ last = NoResult
    /\ prev = NoResult
    /\ timer = 0
    /\ elapsed = 0

\* a call of toMultiBulk, lines 328-338, as request makes it at line 114
CallToMultiBulk ==
    /\ pc = "encode"
    /\ sent' = toMultiBulk(command, Q_OS_WIN)
    /\ pc' = "encoded"
    /\ UNCHANGED <<Q_OS_WIN, isOpen, wire, buffer, pos, startpos, ret, ok, str,
                   reply, command, cur, got, nreq, last, prev>>

NextEnc == CallToMultiBulk /\ UNCHANGED clock

SpecEnc == InitEnc /\ [][NextEnc]_vars

(***************************************************************************)
(* The claims.                                                             *)
(***************************************************************************)
Finished == pc = "idle" /\ last.kind \notin {"None", "TimedOut", "NotOpen"}

Result(r) == [ret |-> r.ret, reply |-> r.reply]

\* what request returns when the whole answer arrives in one read, on a driver
\* that has just been constructed
OneRead(answer) == Result(dispatch(answer, 0, 0, TRUE, NullBA, <<>>, Q_OS_WIN))

\* C1: a request that has read nothing but bytes of its own well-formed reply,
\* in whatever chunks, returns the result and the reply value that it returns
\* when the reply arrives in one read.
C1_SameAsOneRead ==
    (Finished /\ cur \in WellFormed /\ last.heard \in {"all", "part"})
        => Result(last) = OneRead(cur)

\* the bytes of a bulk string reply between its length line and its terminator
BulkPayload(full) == SubSeq(full, 5, Len(full) - 2)

ParsedAs(tag) == pc = "parsed" /\ At(buffer, startpos) = tag

\* C2: parseBulkString on a proper prefix of `$L\r\n<L bytes>\r\n` (L >= 0)
\* reports Incomplete with the cursor where it was; on the whole reply it
\* reports Done with the L payload bytes.
C2_BulkPrefixIncomplete ==
    (ParsedAs("$") /\ cur \in {BulkEmpty, Bulk3})
        => IF Len(buffer) - startpos < Len(cur)
           THEN ~ok /\ pos = startpos
           ELSE ok /\ str = BA(BulkPayload(cur))

\* C3: once `$-1\r\n` has been read the request is complete with a null bulk
\* string, once `$0\r\n\r\n` has been read it is complete with an empty bulk
\* string, and the two replies differ.
C3_NullAndEmptyBulk ==
    /\ (pc = "reading" /\ cur \in {BulkNull, BulkEmpty}) => got # cur
    /\ (pc = "idle" /\ last.heard = "all" /\ last.kind # "None" /\ cur = BulkNull)
           => Result(last) = [ret |-> TRUE, reply |-> <<VBytes(NullBA)>>]
    /\ (pc = "idle" /\ last.heard = "all" /\ last.kind # "None" /\ cur = BulkEmpty)
           => Result(last) = [ret |-> TRUE, reply |-> <<VBytes(BA(<<>>))>>]
    /\ VBytes(NullBA) # VBytes(BA(<<>>))

\* C4: once `*-1\r\n` or `*0\r\n` has been read, the request is complete with
\* an Array result and needs no further byte.
C4_NullAndEmptyArray ==
    /\ (pc = "reading" /\ cur \in {ArrayNull, ArrayEmpty}) => got # cur
    /\ (pc = "idle" /\ last.heard = "all" /\ last.kind # "None"
          /\ cur \in {ArrayNull, ArrayEmpty})
           => (last.kind = "Array" /\ last.ret)

\* C5: the result of a request answered by a well-formed Error reply differs
\* from the result of a request that met an unexpected tag byte.
C5_ServerErrorNotProtocolError ==
    (pc = "idle" /\ cur = ErrorE /\ last.kind = "Error" /\ last.heard = "all"
       /\ prev.kind = "ProtocolError")
        => Result(last) # Result(prev)

Completed == {"Error", "SimpleString", "Integer", "BulkString", "Array"}

\* C6: the result of a request that timed out differs from the result of a
\* request on a connection that is not open and from the result of a request
\* whose reply was completed.
C6_TimedOutDistinct ==
    /\ (pc = "idle" /\ last.kind = "TimedOut"
          /\ prev.kind \in Completed \cup {"NotOpen"})
           => Result(last) # Result(prev)
    /\ (pc = "idle" /\ prev.kind = "TimedOut"
          /\ last.kind \in Completed \cup {"NotOpen"})
           => Result(last) # Result(prev)

\* C7: a request on a connection that is not open returns failure.
C7_NotOpenFails ==
    (pc = "idle" /\ last.kind = "NotOpen") => last.ret = FALSE

\* the text of a one-line reply: without the tag byte and the terminator
LineText(full) == SubSeq(full, 2, Len(full) - 2)

\* C8: getLine on a SimpleString or Error line that is complete at the cursor
\* yields the text between the tag byte and the terminator.
C8_LineIsText ==
    (ParsedAs("+") \/ ParsedAs("-"))
        => ((cur \in {SimpleOK, ErrorE} /\ Len(buffer) - startpos >= Len(cur))
               => (ok /\ str = BA(LineText(cur))))

\* the value of each well-formed array reply with a count >= 0
ArrayValue(full) ==
    IF full = ArrayEmpty THEN <<>>
    ELSE IF full = ArrayOfArray THEN <<VList(<<VInt(7)>>)>>
    ELSE IF full = ArrayOfEmpty THEN <<VList(<<>>)>>
    ELSE <<VBytes(BA(<<"a">>)), VList(<<VInt(7)>>)>>

\* C9: parseArray on a well-formed array reply that is complete at the cursor
\* returns its elements in wire order with their nesting, and leaves the cursor
\* at the end of the array's bytes.
C9_ArrayStructure ==
    (ParsedAs("*") /\ cur \in {ArrayEmpty, ArrayOfArray, ArrayOfEmpty, ArrayNested}
       /\ Len(buffer) - startpos >= Len(cur))
        => (ok /\ reply = ArrayValue(cur) /\ pos = startpos + Len(cur))

\* the request frame of section 6: `*<N>\r\n`, then `$<len>\r\n<bytes>\r\n` for
\* each argument in order
RECURSIVE BulkFrames(_)
BulkFrames(args) ==
    IF args = <<>> THEN <<>>
    ELSE <<"$">> \o number(Len(Head(args))) \o <<CR, LF>> \o Head(args) \o <<CR, LF>>
         \o BulkFrames(Tail(args))

Frame(args) == <<"*">> \o number(Len(args)) \o <<CR, LF>> \o BulkFrames(args)

\* C10: toMultiBulk produces `*<N>\r\n` followed, for each argument in order,
\* by `$<len>\r\n<bytes>\r\n`, every line ended by CR LF.
C10_MultiBulkFrame ==
    pc = "encoded" => sent = Frame(command)

\* the five RESP type tags, tredisdriver.h (enum used at lines 127-153)
Tags == {"-", "+", ":", "$", "*"}

\* the byte at the cursor of the parse attempt that follows a read: the first
\* byte of what readReply keeps of the buffer, then of what it reads
NextTag == At(remove0(buffer, pos) \o wire, 0)

\* C11: when the byte at the cursor of a parse attempt is none of the five
\* tags, request returns at once with a protocol error (ret false), whatever
\* bytes follow, and the buffer is empty with the cursor at 0.
C11_BadTagFailsAtOnce ==
    [][(pc = "reading" /\ wire' # wire /\ NextTag \notin Tags)
          => (pc' = "idle" /\ last'.kind = "ProtocolError" /\ ~last'.ret
                /\ buffer' = <<>> /\ pos' = 0)]_vars

\* a request answered by `!\r\n` has failed on reading the `!` alone
C11_Witness ==
    /\ pc = "idle" /\ cur = BadTag /\ last.heard = "part" /\ wire = <<CR, LF>>
    /\ last.kind = "ProtocolError" /\ ~last.ret /\ buffer = <<>> /\ pos = 0

\* C12: every request starts its receive loop with an empty buffer and the
\* cursor at 0, whatever the previous cycle left.
C12_StartsEmpty ==
    [][(pc = "idle" /\ pc' = "reading") => (buffer' = <<>> /\ pos' = 0)]_vars

\* a second request about to read, the first having left the cursor at 5
C12_Witness ==
    /\ pc = "reading" /\ nreq = 2 /\ got = <<>> /\ startpos = 5
    /\ buffer = <<>> /\ pos = 0

\* C13: a request on an open connection whose reply has started and never
\* completes returns by the read timeout, and the connection is open when it
\* returns.
C13_UnfinishedTimesOut ==
    [][(pc = "reading" /\ pc' = "idle" /\ isOpen /\ cur \in Unfinished
          /\ last'.heard \in {"all", "part"})
          => (last'.kind = "TimedOut" /\ isOpen')]_vars

\* C14: getNumber on an Integer line whose terminator is present yields a
\* number only when the whole line is an optional `-` followed by decimal
\* digits, and fails as malformed when another byte stands before the
\* terminator.
C14_NonDigitIsMalformed ==
    (ParsedAs(":") /\ cur \in {Integer7, BadInteger}
        /\ Len(buffer) - startpos >= Len(cur))
        => IF cur = Integer7 THEN ok /\ reply = <<VInt(7)>>
           ELSE ~ok /\ reply = <<>>

\* C15: in every state of a connection the cursor lies inside the buffer,
\* 0 <= pos <= buffer length.
C15_CursorInBuffer == 0 <= pos /\ pos <= Len(buffer)

\* C16: every attempt of the request loop starts at cursor 0, the start of
\* the unconsumed region readReply leaves (lines 80-83); when the attempt does
\* not complete, the request reading on or failing with a protocol error, the
\* cursor is again at that start.
C16_RollbackToAttemptStart ==
    [][(pc = "reading" /\ wire' # wire
          /\ (pc' = "reading" \/ last'.kind = "ProtocolError"))
          => pos' = 0]_vars

\* C17: while a request is waiting for its reply, the buffer is the
\* concatenation, in receive order, of all bytes read since the request reset
\* the buffer.
C17_NoByteDiscarded == pc = "reading" => buffer = got

\* C18: a bulk string with declared length below -1, and an array with an
\* element whose tag is none of `$`, `:`, `*`, end the request with a protocol
\* error as soon as they have been read; the request does not wait for more
\* bytes.
C18_MalformedBelowTagFails ==
    /\ (pc = "reading" /\ cur \in {BadLength, BadElement}) => got # cur
    /\ (pc = "idle" /\ cur \in {BadLength, BadElement}
          /\ last.heard = "all" /\ last.kind # "None")
           => (last.kind = "ProtocolError" /\ ~last.ret)

\* C19: a request is in its receive loop for no longer than one timeout,
\* counted from the start of the request, however the bytes of the answer
\* arrive.
C19_SingleDeadline == pc = "reading" => elapsed <= ReadTimeout

\* C20: whatever came before on the connection, a request reads, and its
\* reply is parsed from, only bytes of the answer to its own command.
C20_OwnAnswerOnly ==
    /\ pc = "reading" => IsPrefix(got, cur)
    /\ (pc = "idle" /\ last.kind \notin {"None", "NotOpen"}) => last.heard # "other"

====
